---- MODULE Spec2Model ----
(***************************************************************************)
(* Model of the projection package:                                        *)
(*   - projection/default_projections.py : register_default_projections    *)
(*   - projection/gnomonic/strategy.py   : GnomonicProjectionStrategy      *)
(*                                                                         *)
(* RegSpec drives register_default_projections() against the process-wide  *)
(* registry.  GeoSpec drives the two gnomonic strategy operations.         *)
(***************************************************************************)
EXTENDS Integers, Sequences, FiniteSets, TLC

VARIABLES registry, policy, pc, step, startReg, succBefore, calls, raised,
          cfg, fwd, inv

regVars == <<registry, policy, pc, step, startReg, succBefore, calls, raised>>
geoVars == <<cfg, fwd, inv>>
vars == <<registry, policy, pc, step, startReg, succBefore, calls, raised,
          cfg, fwd, inv>>

(***************************************************************************)
(* Bounds                                                                  *)
(***************************************************************************)
MaxCalls == 3
MaxR == 2
MaxXY == 2

(***************************************************************************)
(* ---------------- default_projections.py ------------------------------- *)
(***************************************************************************)

\* The five keys of a component bundle.
RequiredKeys ==
    {"config", "grid_generation", "projection_strategy", "interpolation", "transformer"}

\* The same names with the second and third register calls exchanged.
DefaultNames_reordered ==
    <<"gnomonic", "mercator", "azimutal_equidistant", "stereographic">>

\* The names passed to ProjectionRegistry.register, in program order.
DefaultNames ==
    <<"gnomonic", "azimutal_equidistant", "mercator", "stereographic">>

NumSteps == Len(DefaultNames)

\* A bundle literal that lost its "transformer" entry.
DefaultBundle_nokey(name) ==
    [k \in RequiredKeys \ {"transformer"} |-> <<name, k>>]

\* The dict literal registered under each name.
DefaultBundle(name) ==
    CASE name = "gnomonic" ->
           [config |-> "GnomonicConfig",
            grid_generation |-> "GnomonicGridGeneration",
            projection_strategy |-> "GnomonicProjectionStrategy",
            interpolation |-> "BaseInterpolation",
            transformer |-> "GnomonicTransformer"]
      [] name = "azimutal_equidistant" ->
           [config |-> "AzimutalEquidistantConfig",
            grid_generation |-> "AzimutalEquidistantGridGeneration",
            projection_strategy |-> "AzimutalEquidistantProjectionStrategy",
            interpolation |-> "BaseInterpolation",
            transformer |-> "AzimutalEquidistantTransformer"]
      [] name = "mercator" ->
           [config |-> "MercatorConfig",
            grid_generation |-> "MercatorGridGeneration",
            projection_strategy |-> "MercatorProjectionStrategy",
            interpolation |-> "BaseInterpolation",
            transformer |-> "MercatorTransformer"]
      [] name = "stereographic" ->
           [config |-> "StereographicConfig",
            grid_generation |-> "StereographicGridGeneration",
            projection_strategy |-> "StereographicProjectionStrategy",
            interpolation |-> "BaseInterpolation",
            transformer |-> "StereographicTransformer"]

NoExc == [kind |-> "none", msg |-> <<>>]
NoRaise == [kind |-> "none", msg |-> <<>>, cause |-> NoExc]

\* ProjectionRegistry.register: when it refuses (module .registry).
RegisterRejects(reg, name, bundle) ==
    \/ RequiredKeys \ DOMAIN bundle # {}
    \/ policy = "reject" /\ name \in DOMAIN reg

\* ProjectionRegistry.register: the exception it raises when it refuses.
RegisterError(reg, name, bundle) ==
    IF RequiredKeys \ DOMAIN bundle # {}
    THEN [kind |-> "RegistrationError", msg |-> <<"missing required key", name>>]
    ELSE [kind |-> "RegistrationError", msg |-> <<"already registered", name>>]

\* ProjectionRegistry.register: the table after a successful store.
RegisterStore(reg, name, bundle) ==
    [n \in DOMAIN reg \cup {name} |-> IF n = name THEN bundle ELSE reg[n]]

\* ProjectionRegistry.get
Get(reg, name) ==
    IF name \in DOMAIN reg
    THEN [ok |-> TRUE, bundle |-> reg[name], error |-> "none"]
    ELSE [ok |-> FALSE, bundle |-> <<>>, error |-> "UnknownProjectionError"]

\* Any other exception the register call can let through (TypeError, ...).
UnexpectedError(name) == [kind |-> "Exception", msg |-> <<"unexpected", name>>]

\* A handler that lets the caught exception through unchanged.
HandleFailure_passthrough(e) ==
    [kind |-> e.kind, msg |-> e.msg, cause |-> e]

\* The two except clauses: both raise RegistrationError from e.
HandleFailure(e) ==
    IF e.kind = "RegistrationError"
    THEN [kind |-> "RegistrationError",
          msg |-> <<"Failed to register default projections: ">> \o e.msg,
          cause |-> e]
    ELSE [kind |-> "RegistrationError",
          msg |-> <<"An unexpected error occurred: ">> \o e.msg,
          cause |-> e]

\* A handler that undoes the registrations of the default names.
RegistryAfterFailure_rollback(reg) ==
    [n \in DOMAIN reg \ {DefaultNames[i] : i \in 1..NumSteps} |-> reg[n]]

\* The except clauses leave the registry as the failed step found it.
RegistryAfterFailure(reg) == reg

GeoIdle ==
    /\ cfg = [phi1_deg |-> 0, lam0_deg |-> 0, R |-> 1]
    /\ fwd = [status |-> "none"]
    /\ inv = [status |-> "none"]

RegInit ==
    /\ registry = <<>>
    /\ policy \in {"overwrite", "reject"}
    /\ pc = "idle"
    /\ step = 0
    /\ startReg = <<>>
    /\ succBefore = 0
    /\ calls = 0
    /\ raised = NoRaise
    /\ GeoIdle

\* Entry into register_default_projections().
CallRegisterDefaults ==
    /\ pc # "running"
    /\ calls < MaxCalls
    /\ pc' = "running"
    /\ step' = 1
    /\ calls' = calls + 1
    /\ startReg' = registry
    /\ succBefore' = IF pc = "returned" THEN succBefore + 1 ELSE succBefore
    /\ raised' = NoRaise
    /\ UNCHANGED <<registry, policy>>
    /\ UNCHANGED geoVars

\* The step-th ProjectionRegistry.register call succeeds.
RegisterStepOk ==
    /\ pc = "running"
    /\ step \in 1..NumSteps
    /\ LET name == DefaultNames[step]
           bundle == DefaultBundle(name)
       IN /\ ~RegisterRejects(registry, name, bundle)
          /\ registry' = RegisterStore(registry, name, bundle)
    /\ step' = step + 1
    /\ pc' = IF step = NumSteps THEN "returned" ELSE "running"
    /\ UNCHANGED <<policy, startReg, succBefore, calls, raised>>
    /\ UNCHANGED geoVars

\* The step-th register call raises RegistrationError (except clause 1).
RegisterStepRejected ==
    /\ pc = "running"
    /\ step \in 1..NumSteps
    /\ LET name == DefaultNames[step]
           bundle == DefaultBundle(name)
       IN /\ RegisterRejects(registry, name, bundle)
          /\ raised' = HandleFailure(RegisterError(registry, name, bundle))
    /\ registry' = RegistryAfterFailure(registry)
    /\ pc' = "raised"
    /\ UNCHANGED <<policy, step, startReg, succBefore, calls>>
    /\ UNCHANGED geoVars

\* The step-th register call raises something else (except clause 2).
RegisterStepUnexpected ==
    /\ pc = "running"
    /\ step \in 1..NumSteps
    /\ raised' = HandleFailure(UnexpectedError(DefaultNames[step]))
    /\ registry' = RegistryAfterFailure(registry)
    /\ pc' = "raised"
    /\ UNCHANGED <<policy, step, startReg, succBefore, calls>>
    /\ UNCHANGED geoVars

RegNext ==
    \/ CallRegisterDefaults
    \/ RegisterStepOk
    \/ RegisterStepRejected
    \/ RegisterStepUnexpected

RegSpec == RegInit /\ [][RegNext]_vars

(***************************************************************************)
(* ---------------- gnomonic/strategy.py --------------------------------- *)
(*                                                                         *)
(* Angles are whole multiples of 30 degrees.  Their sines and cosines lie  *)
(* in Q(sqrt 3), so every number of the two transforms is kept exactly: a  *)
(* pair <<a, b>> stands for a + b*sqrt(3).  Sin2 and Cos2 are TWICE the    *)
(* sine and cosine, which keeps a and b integers.  Quotients are kept as   *)
(* numerator and denominator; square roots are kept by their radicand.     *)
(***************************************************************************)

ZAdd(u, v) == <<u[1] + v[1], u[2] + v[2]>>
ZNeg(u) == <<-u[1], -u[2]>>
ZSub(u, v) == ZAdd(u, ZNeg(v))
ZScale(k, u) == <<k * u[1], k * u[2]>>
ZMul(u, v) == <<u[1] * v[1] + 3 * u[2] * v[2], u[1] * v[2] + u[2] * v[1]>>

\* The sign of a + b*sqrt(3): -1, 0 or 1.
ZSgn(u) ==
    LET a == u[1]
        b == u[2]
    IN IF a = 0 /\ b = 0 THEN 0
       ELSE IF a >= 0 /\ b >= 0 THEN 1
       ELSE IF a <= 0 /\ b <= 0 THEN -1
       ELSE IF a > 0 THEN (IF a * a > 3 * b * b THEN 1 ELSE -1)
       ELSE (IF 3 * b * b > a * a THEN 1 ELSE -1)

SinTable ==
    << <<0, 0>>, <<1, 0>>, <<0, 1>>, <<2, 0>>, <<0, 1>>, <<1, 0>>,
       <<0, 0>>, <<-1, 0>>, <<0, -1>>, <<-2, 0>>, <<0, -1>>, <<-1, 0>> >>

\* 2*sin and 2*cos of an angle given in degrees (np.deg2rad, then np.sin/np.cos).
Sin2(deg) == SinTable[((deg % 360) \div 30) + 1]
Cos2(deg) == Sin2(deg + 90)

Lats == {30 * k : k \in -3..3}
CentreLons == {30 * k : k \in -6..6}
Lons == {30 * k : k \in -6..12}
Configs == [phi1_deg : Lats, lam0_deg : CentreLons, R : 1..MaxR]

NoCall == [status |-> "none"]

\* The value the zero test of np.where replaces cos_c by.
Epsilon == [z |-> <<0, 0>>, eps |-> 1]

\* 8*cos_c of line 130 (z), with no multiple of 1e-10 added (eps).
CosC(c, lat, lon) ==
    [z |-> ZAdd(ZScale(2, ZMul(Sin2(c.phi1_deg), Sin2(lat))),
                ZMul(ZMul(Cos2(c.phi1_deg), Cos2(lat)), Cos2(lon - c.lam0_deg))),
     eps |-> 0]

\* np.where(cos_c == 0, 1e-10, cos_c)
GuardCosC(v) == IF ZSgn(v.z) = 0 /\ v.eps = 0 THEN Epsilon ELSE v

\* v > 0 for v = z/8 + eps*1e-10
Positive(v) == ZSgn(v.z) > 0 \/ (ZSgn(v.z) = 0 /\ v.eps > 0)

\* Numerator of x: x = XNum / (8*cos_c)
XNum(c, lat, lon) ==
    ZScale(2 * c.R, ZMul(Cos2(lat), Sin2(lon - c.lam0_deg)))

\* The numerator of y with the sign of its second term turned.
YNum_plus(c, lat, lon) ==
    ZScale(c.R,
           ZAdd(ZScale(2, ZMul(Cos2(c.phi1_deg), Sin2(lat))),
                ZMul(ZMul(Sin2(c.phi1_deg), Cos2(lat)), Cos2(lon - c.lam0_deg))))

\* Numerator of y: y = YNum / (8*cos_c)
YNum(c, lat, lon) ==
    ZScale(c.R,
           ZSub(ZScale(2, ZMul(Cos2(c.phi1_deg), Sin2(lat))),
                ZMul(ZMul(Sin2(c.phi1_deg), Cos2(lat)), Cos2(lon - c.lam0_deg))))

\* The except clause of either operation: raise ProcessingError(...) from e.
WrapFailure(op, e) ==
    [status |-> "ProcessingError", kind |-> "ProcessingError",
     msg |-> <<"Failed during ", op, " Gnomonic projection: ">> \o e.msg,
     cause |-> e]

\* What numpy raises when handed an argument that is not numeric.
NonNumeric == [kind |-> "TypeError", msg |-> <<"not a number">>]

\* from_spherical_to_projection on one point
from_spherical_to_projection(c, lat, lon) ==
    LET cos_c == GuardCosC(CosC(c, lat, lon))
    IN [status |-> "ok", lat |-> lat, lon |-> lon,
        x_num |-> XNum(c, lat, lon),
        y_num |-> YNum(c, lat, lon),
        cos_c |-> cos_c,
        mask |-> Positive(cos_c)]

(***************************************************************************)
(* The inverse.  A planar point is [xn, yn, d] with x = xn/d, y = yn/d,    *)
(* d # 0.  With rho > 0 and h = sqrt(rho^2 + R^2): sin_c = rho/h,          *)
(* cos_c = R/h, so the argument of arcsin is                               *)
(*    (R*sin(phi1) - y*cos(phi1)*(rho/rho)) / h                            *)
(* and the two arguments of arctan2 are (rho/h)*x and                      *)
(* (rho/h)*(R*cos(phi1) + y*sin(phi1)).  With rho = 0 the quotient         *)
(* (y*sin_c*cos(phi1))/rho is 0/0.                                         *)
(***************************************************************************)
NaN == <<"nan">>
Deg(n) == <<"deg", n>>
OffGrid(s, a, b) == <<"off", s, a, b>>

\* rho = 0, from x**2 + y**2
RhoIsZero(p) == ZSgn(ZAdd(ZMul(p.xn, p.xn), ZMul(p.yn, p.yn))) = 0

\* np.rad2deg(np.arcsin(s * sqrt(P2 / (4*H)))), s the sign
ArcsinDeg(s, P2, H) ==
    IF ZSgn(P2) = 0 THEN Deg(0)
    ELSE IF P2 = H THEN Deg(s * 30)
    ELSE IF P2 = ZScale(3, H) THEN Deg(s * 60)
    ELSE IF P2 = ZScale(4, H) THEN Deg(s * 90)
    ELSE OffGrid(s, P2, ZScale(4, H))

\* np.rad2deg(np.arctan2(A, B)); arctan2(0, 0) = 0, and arctan2(0, B) with
\* B < 0 is the value for +0.0, which is 180
Atan2Deg(A, B) ==
    LET sa == ZSgn(A)
        sb == ZSgn(B)
        A2 == ZMul(A, A)
        B2 == ZMul(B, B)
    IN IF sa = 0 THEN (IF sb >= 0 THEN Deg(0) ELSE Deg(180))
       ELSE IF sb = 0 THEN Deg(sa * 90)
       ELSE IF ZScale(3, A2) = B2 THEN Deg(IF sb > 0 THEN sa * 30 ELSE sa * 150)
       ELSE IF A2 = ZScale(3, B2) THEN Deg(IF sb > 0 THEN sa * 60 ELSE sa * 120)
       ELSE OffGrid(sa * sb, A2, B2)

\* A division that raises on 0/0, as Python's own float division does.
ZeroByZero_raises == [raises |-> TRUE, value |-> NaN]

\* (y * sin_c * np.cos(phi1_rad)) / rho with rho = 0: numpy's division gives
\* nan (with a RuntimeWarning) and raises nothing.
ZeroByZero == [raises |-> FALSE, value |-> NaN]

\* lat of lines 79 and 90
InvLat(c, p) ==
    IF RhoIsZero(p) THEN ZeroByZero.value
    ELSE LET P == ZSub(ZScale(c.R, ZMul(Sin2(c.phi1_deg), p.d)),
                       ZMul(p.yn, Cos2(c.phi1_deg)))
             H == ZAdd(ZAdd(ZMul(p.xn, p.xn), ZMul(p.yn, p.yn)),
                       ZScale(c.R * c.R, ZMul(p.d, p.d)))
         IN ArcsinDeg(ZSgn(P) * ZSgn(p.d), ZMul(P, P), H)

\* lon of lines 83-86 and 91
InvLon(c, p) ==
    LET A == ZScale(2 * ZSgn(p.d), p.xn)
        B == ZScale(ZSgn(p.d),
                    ZAdd(ZScale(c.R, ZMul(Cos2(c.phi1_deg), p.d)),
                         ZMul(p.yn, Sin2(c.phi1_deg))))
        a == IF RhoIsZero(p) THEN Deg(0) ELSE Atan2Deg(A, B)
    IN IF a[1] = "deg" THEN Deg(c.lam0_deg + a[2])
       ELSE OffGrid(c.lam0_deg, a[3], a[4])

\* from_projection_to_spherical on one point
from_projection_to_spherical(c, p, src) ==
    IF RhoIsZero(p) /\ ZeroByZero.raises
    THEN WrapFailure("inverse",
                     [kind |-> "ZeroDivisionError", msg |-> <<"division by zero">>])
    ELSE [status |-> "ok", src |-> src, p |-> p,
          lat |-> InvLat(c, p), lon |-> InvLon(c, p)]

GeoInit ==
    /\ cfg \in Configs
    /\ fwd = NoCall
    /\ inv = NoCall
    /\ registry = <<>>
    /\ policy = "overwrite"
    /\ pc = "idle"
    /\ step = 0
    /\ startReg = <<>>
    /\ succBefore = 0
    /\ calls = 0
    /\ raised = NoRaise

\* The strategy keeps no state between calls (only self.config), so a
\* behaviour is one call, or a forward call followed by the inverse of its
\* result.
Fresh == fwd = NoCall /\ inv = NoCall

\* A call of from_spherical_to_projection(lat, lon)
Forward ==
    /\ Fresh
    /\ \E lat \in Lats, lon \in Lons :
           fwd' = from_spherical_to_projection(cfg, lat, lon)
    /\ inv' = NoCall
    /\ UNCHANGED cfg
    /\ UNCHANGED regVars

\* A call of from_spherical_to_projection with an argument numpy refuses
ForwardNonNumeric ==
    /\ Fresh
    /\ fwd' = WrapFailure("forward", NonNumeric)
    /\ inv' = NoCall
    /\ UNCHANGED cfg
    /\ UNCHANGED regVars

\* A call of from_projection_to_spherical(x, y) on a point with whole coordinates
Inverse ==
    /\ Fresh
    /\ \E x \in -MaxXY..MaxXY, y \in -MaxXY..MaxXY :
           inv' = from_projection_to_spherical(
                      cfg, [xn |-> <<x, 0>>, yn |-> <<y, 0>>, d |-> <<1, 0>>], "xy")
    /\ fwd' = NoCall
    /\ UNCHANGED cfg
    /\ UNCHANGED regVars

\* from_projection_to_spherical(x, y) on the x, y the forward call returned
\* (points whose cos_c was replaced by 1e-10 lie beyond the planar range kept)
InverseOfProjected ==
    /\ fwd.status = "ok"
    /\ fwd.cos_c.eps = 0
    /\ inv = NoCall
    /\ inv' = from_projection_to_spherical(
                  cfg, [xn |-> fwd.x_num, yn |-> fwd.y_num, d |-> fwd.cos_c.z], "fwd")
    /\ UNCHANGED <<cfg, fwd>>
    /\ UNCHANGED regVars

\* A call of from_projection_to_spherical with an argument numpy refuses
InverseNonNumeric ==
    /\ Fresh
    /\ inv' = WrapFailure("inverse", NonNumeric)
    /\ fwd' = NoCall
    /\ UNCHANGED cfg
    /\ UNCHANGED regVars

GeoNext ==
    \/ Forward
    \/ ForwardNonNumeric
    \/ Inverse
    \/ InverseOfProjected
    \/ InverseNonNumeric

GeoSpec == GeoInit /\ [][GeoNext]_vars

(***************************************************************************)
(* Properties of register_default_projections (checked under RegSpec)      *)
(***************************************************************************)

\* The projection families the specification names.
SpecFamilies ==
    {"gnomonic", "mercator", "oblique_mercator", "stereographic", "azimuthal_equidistant"}

\* C5: after a successful call of register_default_projections() on an empty
\* registry, a lookup of each of the five family names gnomonic, mercator,
\* oblique_mercator, stereographic and azimuthal_equidistant finds a bundle.
C5_AllFiveFamiliesRegistered ==
    (pc = "returned" /\ DOMAIN startReg = {}) =>
        \A n \in SpecFamilies : Get(registry, n).ok

\* C6: once one call has succeeded, every later call leaves the set of
\* registered names and the bundle under each name as it found them, and its
\* outcome is fixed by the duplicate policy: it returns (overwrite) or it
\* raises RegistrationError at the first step (reject).
C6_ReRegistrationIdempotent ==
    succBefore >= 1 =>
        /\ DOMAIN registry = DOMAIN startReg
        /\ \A n \in DOMAIN registry : registry[n] = startReg[n]
        /\ pc = "returned" => policy = "overwrite"
        /\ pc = "raised" => raised.kind = "RegistrationError"
        /\ (pc = "raised" /\ raised.cause.kind = "RegistrationError") =>
               (policy = "reject" /\ step = 1)

C6_Witness ==
    /\ succBefore >= 1
    /\ pc = "raised"
    /\ policy = "reject"
    /\ Cardinality(DOMAIN registry) = 4

\* C8: a failed register step ends the call with a RegistrationError whose
\* message embeds the message of the exception that caused it, whatever the
\* kind of that exception; the call returns normally only when all of its
\* register steps succeeded.
C8_FailureIsFatalRegistrationError ==
    /\ pc = "raised" =>
          /\ raised.kind = "RegistrationError"
          /\ raised.cause.kind \in {"RegistrationError", "Exception"}
          /\ Len(raised.msg) = Len(raised.cause.msg) + 1
          /\ SubSeq(raised.msg, 2, Len(raised.msg)) = raised.cause.msg
    /\ pc = "returned" => (raised = NoRaise /\ step = 5)
    /\ pc = "running" => raised = NoRaise

C8_Witness ==
    /\ pc = "raised"
    /\ raised.cause.kind = "Exception"
    /\ step = 2

\* C9: every registered name maps to a bundle with exactly the keys config,
\* grid_generation, projection_strategy, interpolation and transformer, and
\* no register step is refused for a missing key.
C9_BundlesHaveExactlyFiveKeys ==
    /\ \A n \in DOMAIN registry :
           DOMAIN registry[n] =
               {"config", "grid_generation", "projection_strategy",
                "interpolation", "transformer"}
    /\ pc = "raised" => raised.cause.msg[1] # "missing required key"

C9_Witness ==
    /\ pc = "returned"
    /\ calls >= 2
    /\ Cardinality(DOMAIN registry) = 4

\* The order of registration the claim states.
C10_Order == <<"gnomonic", "azimutal_equidistant", "mercator", "stereographic">>

\* C10: the names are registered one at a time in the order gnomonic,
\* azimutal_equidistant, mercator, stereographic; when step k fails the
\* registry is the one the call started with plus exactly the names of
\* steps 1..k-1, and nothing of steps k.. has been touched (no rollback).
C10_StopsAtFirstFailureNoRollback ==
    (pc \in {"running", "raised"}) =>
        LET done == {C10_Order[i] : i \in 1..(step - 1)}
        IN /\ DOMAIN registry = DOMAIN startReg \cup done
           /\ \A n \in done : registry[n] = DefaultBundle(n)
           /\ \A n \in DOMAIN registry \ done : registry[n] = startReg[n]

C10_Witness ==
    /\ pc = "raised"
    /\ step = 3
    /\ DOMAIN startReg = {}
    /\ DOMAIN registry = {"gnomonic", "azimutal_equidistant"}

(***************************************************************************)
(* Properties of GnomonicProjectionStrategy (checked under GeoSpec)        *)
(***************************************************************************)

\* C1: from_projection_to_spherical at x = 0, y = 0 returns exactly
\* (lat, lon) = (phi1_deg, lam0_deg), without raising and without NaN.
C1_ZeroRadiusReturnsCentre ==
    /\ inv.status = "ProcessingError" => inv.cause.kind = "TypeError"
    /\ (inv.status = "ok" /\ RhoIsZero(inv.p)) =>
           /\ inv.lat = Deg(cfg.phi1_deg)
           /\ inv.lon = Deg(cfg.lam0_deg)

\* C2: the mask returned by from_spherical_to_projection is true exactly
\* when sin(phi1)sin(phi) + cos(phi1)cos(phi)cos(lam - lam0) > 0, so a point
\* on the horizon (where that sum is 0) gets mask = false.
C2_MaskIffStrictlyInsideHemisphere ==
    fwd.status = "ok" =>
        (fwd.mask <=>
            ZSgn(ZAdd(ZScale(2, ZMul(Sin2(cfg.phi1_deg), Sin2(fwd.lat))),
                      ZMul(ZMul(Cos2(cfg.phi1_deg), Cos2(fwd.lat)),
                           Cos2(fwd.lon - cfg.lam0_deg)))) > 0)

\* C3: the centre (phi1_deg, lam0_deg) maps to (x, y) = (0, 0) with mask
\* true, and its antipode (-phi1_deg, lam0_deg + 180) gets mask false.
C3_CentreAndAntipode ==
    fwd.status = "ok" =>
        /\ (fwd.lat = cfg.phi1_deg /\ fwd.lon = cfg.lam0_deg) =>
               (fwd.x_num = <<0, 0>> /\ fwd.y_num = <<0, 0>> /\ fwd.mask)
        /\ (fwd.lat = -cfg.phi1_deg /\ fwd.lon = cfg.lam0_deg + 180) =>
               ~fwd.mask

C3_Witness ==
    /\ fwd.status = "ok"
    /\ cfg.phi1_deg = 30
    /\ cfg.lam0_deg = 150
    /\ fwd.lat = -30
    /\ fwd.lon = 330
    /\ ~fwd.mask

\* C4: for lat in [-90, 90] and lon in [-180, 180] with a true forward mask,
\* from_projection_to_spherical of the x, y that
\* from_spherical_to_projection returned gives back the same (lat, lon).
C4_RoundTrip ==
    (/\ inv.status = "ok"
     /\ inv.src = "fwd"
     /\ fwd.mask
     /\ fwd.lat \in -90..90
     /\ fwd.lon \in -180..180) =>
        (inv.lat = Deg(fwd.lat) /\ inv.lon = Deg(fwd.lon))

\* C7: neither operation fails on a numeric point, degenerate or not (the
\* horizon, the far hemisphere, zero radial distance): it returns a value
\* and a boolean mask; a call fails only on arguments numpy refuses, and
\* then with a ProcessingError that wraps the exception and its message.
C7_OnlyProcessingError ==
    /\ fwd.status \in {"none", "ok", "ProcessingError"}
    /\ inv.status \in {"none", "ok", "ProcessingError"}
    /\ fwd.status = "ok" => fwd.mask \in BOOLEAN
    /\ fwd.status = "ProcessingError" =>
          /\ fwd.kind = "ProcessingError"
          /\ fwd.cause.kind = "TypeError"
          /\ SubSeq(fwd.msg, 4, Len(fwd.msg)) = fwd.cause.msg
    /\ inv.status = "ProcessingError" =>
          /\ inv.kind = "ProcessingError"
          /\ inv.cause.kind = "TypeError"
          /\ SubSeq(inv.msg, 4, Len(inv.msg)) = inv.cause.msg

C7_Witness ==
    /\ inv.status = "ok"
    /\ RhoIsZero(inv.p)
    /\ inv.src = "xy"
    /\ inv.lat = NaN

====
